---- MODULE Spec2Model ----
(***************************************************************************)
(* Model of the caching DNS server of src/dns_server.py: the cache `Cash`  *)
(* (records map, eviction queue, lock, startup restore, save at exit) and  *)
(* the request handlers DnsRequestHandler.handle that run concurrently on  *)
(* it, one thread per datagram (socketserver.ThreadingUDPServer), each     *)
(* with its upstream socket and its referral walk __get_answer__.          *)
(*                                                                         *)
(* Bytes are sequences of numbers 0..255, Python strings are sequences of  *)
(* code points.  CashRecord objects live in `heap`, because the queue and   *)
(* the map hold references to the same objects; a reference is a number,   *)
(* larger for the object constructed later, and an object nothing refers   *)
(* to any more leaves the heap.                                            *)
(***************************************************************************)
EXTENDS Integers, Sequences, FiniteSets, TLC

\* ------------------------------------------------------------- bounds
\* the clock runs from 1 to MaxTime
MaxTime == 2
\* the largest maxsize the server is constructed with
MaxCap == 2
\* the number of datagrams the frontend dispatches in one run
MaxReq == 3

\* worker threads that can run handle() at the same time
Threads == {"t1", "t2"}

\* ------------------------------------------------------------- bytes
\* a well-formed UTF-8 continuation byte
IsCont(b) == b >= 128 /\ b <= 191

\* the length of the well-formed UTF-8 sequence that starts at b[i], 0 if
\* none starts there (bytes.decode, src/dns_server.py:45-46, 263)
SeqLen(b, i) ==
    LET n == Len(b)
        c0 == b[i]
        c1 == IF i + 1 <= n THEN b[i + 1] ELSE 0
        c2 == IF i + 2 <= n THEN b[i + 2] ELSE 0
        c3 == IF i + 3 <= n THEN b[i + 3] ELSE 0
    IN  IF c0 < 128 THEN 1
        ELSE IF c0 >= 194 /\ c0 <= 223
            THEN (IF IsCont(c1) THEN 2 ELSE 0)
        ELSE IF c0 >= 224 /\ c0 <= 239
            THEN (IF /\ IsCont(c1) /\ IsCont(c2)
                     /\ (c0 = 224 => c1 >= 160)
                     /\ (c0 = 237 => c1 <= 159)
                  THEN 3 ELSE 0)
        ELSE IF c0 >= 240 /\ c0 <= 244
            THEN (IF /\ IsCont(c1) /\ IsCont(c2) /\ IsCont(c3)
                     /\ (c0 = 240 => c1 >= 144)
                     /\ (c0 = 244 => c1 <= 143)
                  THEN 4 ELSE 0)
        ELSE 0

\* the code point of the well-formed sequence of length k at b[i]
CodePoint(b, i, k) ==
    IF k = 1 THEN b[i]
    ELSE IF k = 2 THEN (b[i] - 192) * 64 + (b[i + 1] - 128)
    ELSE IF k = 3 THEN (b[i] - 224) * 4096 + (b[i + 1] - 128) * 64 + (b[i + 2] - 128)
    ELSE (b[i] - 240) * 262144 + (b[i + 1] - 128) * 4096
         + (b[i + 2] - 128) * 64 + (b[i + 3] - 128)

RECURSIVE DecodeFrom(_, _)
DecodeFrom(b, i) ==
    IF i > Len(b) THEN << >>
    ELSE LET k == SeqLen(b, i)
         IN  IF k = 0 THEN DecodeFrom(b, i + 1)
             ELSE << CodePoint(b, i, k) >> \o DecodeFrom(b, i + k)

\* bytes.decode(errors='ignore'): every byte that is not part of a
\* well-formed UTF-8 sequence is dropped
Decode(b) == DecodeFrom(b, 1)

\* the UTF-8 bytes of one code point
EncodeChar(c) ==
    IF c < 128 THEN << c >>
    ELSE IF c < 2048 THEN << 192 + (c \div 64), 128 + (c % 64) >>
    ELSE IF c < 65536
        THEN << 224 + (c \div 4096), 128 + ((c \div 64) % 64), 128 + (c % 64) >>
    ELSE << 240 + (c \div 262144), 128 + ((c \div 4096) % 64),
            128 + ((c \div 64) % 64), 128 + (c % 64) >>

RECURSIVE Encode(_)
\* str.encode()
Encode(s) == IF s = << >> THEN << >> ELSE EncodeChar(Head(s)) \o Encode(Tail(s))

\* b[k:] of Python, k counted from 0
From(b, k) == IF Len(b) <= k THEN << >> ELSE SubSeq(b, k + 1, Len(b))
\* b[:k] of Python
UpTo(b, k) == IF Len(b) <= k THEN b ELSE SubSeq(b, 1, k)


\* ------------------------------------------------------------- data
\* two transaction IDs (bytes 0..1 of a datagram)
IdA == << 0, 1 >>
IdB == << 255, 254 >>
\* bytes 2..11 of a query: flags, QDCOUNT 1, ANCOUNT, NSCOUNT, ARCOUNT 0;
\* once with the RD flag and once without
HdrRD == << 1, 0, 0, 1, 0, 0, 0, 0, 0, 0 >>
HdrNoRD == << 0, 0, 0, 1, 0, 0, 0, 0, 0, 0 >>
\* the question section "a" A IN
Question == << 1, 97, 0, 0, 1, 0, 1 >>

\* the datagrams clients send: the same question under two IDs, and under
\* another header
Datagrams ==
    { IdA \o HdrRD \o Question, IdB \o HdrRD \o Question, IdA \o HdrNoRD \o Question }

\* bytes 2.. of the upstream replies that carry an answer: one that starts
\* with the flag bytes of a response (0x81 0x80), one that is all ASCII
Bodies == { << 129, 128, 0, 1 >>, << 0, 0, 65, 66 >> }

\* the TTL of the first answer record: expiring at once, or distant
TTLs == { 0, 10 }

\* handle line 263: key = data[2:].decode(errors='ignore')
KeyOf(d) == Decode(From(d, 2))
Keys == { KeyOf(d) : d \in Datagrams }

\* cash.json is absent, or holds a dict of at most MaxSnap records in file
\* order; deadlines lie in the past (0) or are distant
MaxSnap == 2
SnapRecords ==
    [request : Keys, response : { << 0, 0, 65, 66 >> }, let : { 0, 10 }, r : BOOLEAN]
SnapDicts ==
    { s \in UNION { [1..n -> SnapRecords] : n \in 0..MaxSnap } :
        \A i, j \in DOMAIN s : s[i].request = s[j].request => i = j }
NoFile == [file |-> FALSE, dict |-> << >>]
Snapshots == { [file |-> TRUE, dict |-> s] : s \in SnapDicts } \cup { NoFile }

\* ------------------------------------------------------------- resolver
\* root_server_address, line 241 (the port is 53 throughout)
Root == "198.41.0.4"
\* the addresses the upstream servers name in A records
Glue == "192.0.2.1"
OtherGlue == "192.0.2.2"
\* records of the additional section as parse_response returns them: an A
\* record per address and an AAAA record
A(addr) == [type |-> 1, data |-> addr]
AAAA == [type |-> 28, data |-> "2001:db8::1"]
\* the name of a name server, as the labels of "ns"
NsName == << << 110, 115 >> >>
NS == [type |-> 2, data |-> NsName]

\* the parsed upstream replies without an answer section: one NS record in
\* the authority section, and an additional section that is absent, holds
\* one A record, holds two A records after another record, or holds no A
\* record
Additionals ==
    { << >>, << A(Glue) >>, << AAAA, A(Glue), A(OtherGlue) >>, << AAAA, AAAA >> }
Referrals == [authority : { << NS >> }, additional : Additionals]
NoReply == [authority |-> << >>, additional |-> << >>]
\* the addresses the answers to the generated queries give for "ns"
NsAddresses == { Glue }
\* the IDs random.randint gives the generated queries (line 102)
RandomIds == { IdB }

RECURSIVE Labels(_)
\* __generate_body__ lines 116-119: each label after its length
Labels(url) ==
    IF url = << >> THEN << >>
    ELSE << Len(Head(url)) >> \o Head(url) \o Labels(Tail(url))

\* generate_request(url, 'A') with the random ID id: the header with opcode
\* 0 and rd 0, QDCOUNT 1, then the labels, the root label, type A, class IN
generate_request(id, url) ==
    id \o << 0, 0, 0, 1, 0, 0, 0, 0, 0, 0 >> \o Labels(url) \o << 0, 0, 1, 0, 1 >>

\* the deepest nesting of __get_answer__ calls inside the outermost one
MaxNest == 1
\* the most queue heads one call of put takes before the model stops it
MaxHeads == 4

\* ------------------------------------------------------------- state
VARIABLES
    maxsize,   \* Cash.queue.maxsize, the cash_size of the server
    snapshot,  \* restore: the dict read from cash.json, or NoFile
    phase,     \* "restore" (in Cash.__init__), "hung", "serving"
    cursor,    \* restore: the next record of the dict
    heap,      \* the CashRecord objects in use, by order of construction
    records,   \* Cash.records: key -> reference into heap
    queue,     \* Cash.queue: references into heap, head first
    locked,    \* Cash.lock is held
    now,       \* time.time()
    pc,        \* where each thread is in handle()
    data,      \* handle: the datagram read from rfile
    record,    \* get / put: the local variable record
    answer,    \* handle: raw_answer and the ttl of its first answer record
    wfile,     \* handle: the bytes written to wfile
    err,       \* the exception that ended handle(), if any
    nreq,      \* datagrams dispatched so far
    target,    \* __get_answer__: the address the next query goes to
    stack,     \* __get_answer__: the request of each call under way, outermost first
    reply,     \* __get_answer__: the parsed response without an answer section
    sock,      \* the handler's request_socket: "none", "open", "closed"
    order,     \* Cash.records: its keys in the order the dict iterates them
    heads,     \* put: the queue heads the eviction loop has taken in this call
    nsent      \* datagrams the server has sent to clients (finish)

vars == << maxsize, snapshot, phase, cursor, heap, records, order, queue, locked, now,
           pc, data, record, answer, wfile, err, nreq, target, stack, reply, sock,
           heads, nsent >>

cacheVars == << heap, records, order, queue, locked >>
startVars == << maxsize, snapshot, phase, cursor >>
localVars == << data, record, answer, wfile, err >>
resVars == << target, stack, reply >>

None == [exc |-> "None", in |-> "None"]
NoAnswer == [raw |-> << >>, ttl |-> 0]

\* CashRecord.__init__ (r = True), then restore's record.r = ...
CashRecord(request, response, let, r) ==
    [request |-> request, response |-> response, let |-> let, r |-> r]

\* Queue.full(): 0 < maxsize <= qsize()
Full == 0 < maxsize /\ maxsize <= Len(queue)

\* a reference for a new object
NewRef == IF DOMAIN heap = {} THEN 1
          ELSE 1 + CHOOSE i \in DOMAIN heap : \A j \in DOMAIN heap : j <= i
\* the heap with one more object
Alloc(h, ref, obj) == [x \in DOMAIN h \cup {ref} |-> IF x = ref THEN obj ELSE h[x]]
\* the heap without an object that nothing refers to any more
Free(h, ref) == [x \in DOMAIN h \ {ref} |-> h[x]]

\* dict.pop(key) on a key that is present
Pop(map, k) == [x \in DOMAIN map \ {k} |-> map[x]]
\* dict[key] = value
Set(map, k, v) == [x \in DOMAIN map \cup {k} |-> IF x = k THEN v ELSE map[x]]

\* the iteration order of a dict after dict[key] = value: a new key goes last
Keep(ord, k) == IF \E i \in 1..Len(ord) : ord[i] = k THEN ord ELSE Append(ord, k)
\* the iteration order of a dict after dict.pop(key)
Drop(ord, k) == SelectSeq(ord, LAMBDA x : x # k)

Init ==
    /\ maxsize \in 0..MaxCap
    /\ snapshot \in Snapshots
    /\ phase = "restore"
    /\ cursor = 1
    /\ heap = << >>
    /\ records = << >>
    /\ queue = << >>
    /\ locked = FALSE
    /\ now = 1
    /\ pc = [t \in Threads |-> "idle"]
    /\ data = [t \in Threads |-> << >>]
    /\ record = [t \in Threads |-> 0]
    /\ answer = [t \in Threads |-> NoAnswer]
    /\ wfile = [t \in Threads |-> << >>]
    /\ err = [t \in Threads |-> None]
    /\ nreq = 0
    /\ target = [t \in Threads |-> Root]
    /\ stack = [t \in Threads |-> << >>]
    /\ reply = [t \in Threads |-> NoReply]
    /\ sock = [t \in Threads |-> "none"]
    /\ order = << >>
    /\ heads = [t \in Threads |-> 0]
    /\ nsent = 0

\* ------------------------------------------------------------- startup
\* Cash.__init__: open() raises FileNotFoundError, which is passed over
RestoreNoFile ==
    /\ phase = "restore"
    /\ ~snapshot.file
    /\ phase' = "serving"
    /\ cursor' = 0
    /\ UNCHANGED << maxsize, snapshot, cacheVars, now, pc, localVars, nreq, resVars, sock, heads, nsent >>

\* Cash.restore: one iteration of the loop over the snapshot
RestoreRecord ==
    /\ phase = "restore"
    /\ snapshot.file
    /\ cursor <= Len(snapshot.dict)
    /\ LET s == snapshot.dict[cursor]
           id == NewRef
       IN  IF s.let < now
           THEN /\ cursor' = cursor + 1
                /\ UNCHANGED << phase, heap, records, order, queue >>
           ELSE /\ heap' = Alloc(heap, id, CashRecord(s.request, s.response, s.let, s.r))
                /\ records' = Set(records, s.request, id)
                /\ order' = Keep(order, s.request)
                /\ IF Full
                   THEN \* Queue.put blocks: nothing ever takes from the queue
                        /\ phase' = "hung"
                        /\ UNCHANGED << cursor, queue >>
                   ELSE /\ queue' = Append(queue, id)
                        /\ cursor' = cursor + 1
                        /\ UNCHANGED phase
    /\ UNCHANGED << maxsize, snapshot, locked, now, pc, localVars, nreq, resVars, sock, heads, nsent >>

\* Cash.restore returns, its locals are gone; the server starts to serve
RestoreDone ==
    /\ phase = "restore"
    /\ snapshot.file
    /\ cursor > Len(snapshot.dict)
    /\ phase' = "serving"
    /\ snapshot' = NoFile
    /\ cursor' = 0
    /\ UNCHANGED << maxsize, cacheVars, now, pc, localVars, nreq, resVars, sock, heads, nsent >>

\* Cash.save lines 75-77: the dict written to cash.json, one entry per key
\* of the map in its iteration order (to_dict, lines 20-21)
Saved ==
    [i \in 1..Len(order) |->
        [request |-> order[i], response |-> heap[records[order[i]]].response,
         let |-> heap[records[order[i]]].let, r |-> heap[records[order[i]]].r]]

\* the server is shut down in order, all handler threads having ended:
\* atexit runs Cash.save (line 33); then the server is started again with
\* the same cash_size, and Cash.__init__ reads the file
Exit ==
    /\ phase = "serving"
    /\ \A t \in Threads : pc[t] = "idle"
    /\ snapshot' = [file |-> TRUE, dict |-> Saved]
    /\ phase' = "restore"
    /\ cursor' = 1
    /\ heap' = << >>
    /\ records' = << >>
    /\ order' = << >>
    /\ queue' = << >>
    /\ locked' = FALSE
    /\ UNCHANGED << maxsize, now, pc, localVars, nreq, resVars, sock, heads, nsent >>

\* the clock advances
Tick ==
    /\ phase = "serving"
    /\ now < MaxTime
    /\ now' = now + 1
    /\ UNCHANGED << startVars, cacheVars, pc, localVars, nreq, resVars, sock, heads, nsent >>


\* ------------------------------------------------------------- handle
\* ThreadingUDPServer: a datagram arrives and a new thread constructs the
\* handler, which opens its request_socket (lines 256-257) and runs
\* handle(); line 262 reads the datagram
Dispatch(t) ==
    /\ phase = "serving"
    /\ pc[t] = "idle"
    /\ nreq < MaxReq
    /\ \E d \in Datagrams : data' = [data EXCEPT ![t] = d]
    /\ nreq' = nreq + 1
    /\ sock' = [sock EXCEPT ![t] = "open"]
    /\ pc' = [pc EXCEPT ![t] = "contains"]
    /\ UNCHANGED << startVars, cacheVars, now, record, answer, wfile, err, resVars, heads, nsent >>

\* handle line 263
key(t) == KeyOf(data[t])

Goto(t, where) == pc' = [pc EXCEPT ![t] = where]
\* an exception leaves handle(): its type and the function that raised it
Raise(t, what, where) ==
    /\ pc' = [pc EXCEPT ![t] = "raised"]
    /\ err' = [err EXCEPT ![t] = [exc |-> what, in |-> where]]

\* handle line 268: __get_answer__(data, root_server_address) is called
Call(t) == stack' = [stack EXCEPT ![t] = << data[t] >>]

\* Cash.__contains__ line 82: item not in self.records
ContainsIn(t) ==
    /\ pc[t] = "contains"
    /\ IF key(t) \notin DOMAIN records
       THEN Goto(t, "resolve") /\ Call(t)
       ELSE Goto(t, "contains_let") /\ UNCHANGED stack
    /\ UNCHANGED << startVars, cacheVars, now, localVars, nreq, target, reply, sock, heads, nsent >>

\* Cash.__contains__ line 84: self.records[item].let < time.time()
ContainsLet(t) ==
    /\ pc[t] = "contains_let"
    /\ IF key(t) \notin DOMAIN records
       THEN Raise(t, "KeyError", "__contains__")
       ELSE /\ IF heap[records[key(t)]].let < now
               THEN Goto(t, "contains_pop")
               ELSE Goto(t, "get_acquire")
            /\ UNCHANGED err
    /\ UNCHANGED << startVars, cacheVars, now, data, record, answer, wfile, nreq, resVars, sock, heads, nsent >>

\* Cash.__contains__ lines 85-86: self.records.pop(item); return False
ContainsPop(t) ==
    /\ pc[t] = "contains_pop"
    /\ IF key(t) \notin DOMAIN records
       THEN /\ Raise(t, "KeyError", "__contains__")
            /\ UNCHANGED << records, order, stack >>
       ELSE /\ records' = Pop(records, key(t))
            /\ order' = Drop(order, key(t))
            /\ Goto(t, "resolve")
            /\ Call(t)
            /\ UNCHANGED err
    /\ UNCHANGED << startVars, heap, queue, locked, now, data, record, answer, wfile, nreq, target, reply, sock, heads, nsent >>

\* Cash.get line 36: self.lock.acquire()
GetAcquire(t) ==
    /\ pc[t] = "get_acquire"
    /\ ~locked
    /\ locked' = TRUE
    /\ Goto(t, "get_check")
    /\ UNCHANGED << startVars, heap, records, order, queue, now, localVars, nreq, resVars, sock, heads, nsent >>

\* Cash.get lines 37-38: on a miss get returns None with the lock held, and
\* handle line 265 raises TypeError on data[:2] + None
GetCheck(t) ==
    /\ pc[t] = "get_check"
    /\ IF key(t) = << >> \/ key(t) \notin DOMAIN records
       THEN Raise(t, "TypeError", "handle")
       ELSE Goto(t, "get_record") /\ UNCHANGED err
    /\ UNCHANGED << startVars, cacheVars, now, data, record, answer, wfile, nreq, resVars, sock, heads, nsent >>

\* Cash.get lines 39-40: record = self.records[key]; record.r = True
GetRecord(t) ==
    /\ pc[t] = "get_record"
    /\ IF key(t) \notin DOMAIN records
       THEN /\ Raise(t, "KeyError", "get")
            /\ UNCHANGED << heap, record >>
       ELSE /\ record' = [record EXCEPT ![t] = records[key(t)]]
            /\ heap' = [heap EXCEPT ![records[key(t)]].r = TRUE]
            /\ Goto(t, "get_release")
            /\ UNCHANGED err
    /\ UNCHANGED << startVars, records, order, queue, locked, now, data, answer, wfile, nreq, resVars, sock, heads, nsent >>

\* Cash.get lines 41-42 and handle lines 265-266: the lock is released, the
\* response is encoded and written after the client's ID
GetRelease(t) ==
    /\ pc[t] = "get_release"
    /\ locked' = FALSE
    /\ wfile' = [wfile EXCEPT ![t] = UpTo(data[t], 2) \o Encode(heap[record[t]].response)]
    /\ Goto(t, "done")
    /\ UNCHANGED << startVars, heap, records, order, queue, now, data, record, answer, err, nreq, resVars, sock, heads, nsent >>


\* __get_answer__: the request of the call under way (the innermost one)
request(t) == stack[t][Len(stack[t])]

\* the outermost __get_answer__ call has returned or raised: its locals are
\* gone
Return(t) ==
    /\ target' = [target EXCEPT ![t] = Root]
    /\ stack' = [stack EXCEPT ![t] = << >>]
    /\ reply' = [reply EXCEPT ![t] = NoReply]

\* lines 286-289: the address of the first A record of the additional
\* section, or the target as it was when the section holds none
FirstA(additional, old) ==
    IF \E i \in 1..Len(additional) : additional[i].type = 1
    THEN additional[CHOOSE i \in 1..Len(additional) :
                        /\ additional[i].type = 1
                        /\ \A j \in 1..(i - 1) : additional[j].type # 1].data
    ELSE old

\* ResolveAnswer as it would be if the answer to a generated query were
\* returned to handle as the answer to the client's query
ResolveAnswerOfAnyCall(t) ==
    /\ pc[t] = "resolve"
    /\ Len(stack[t]) >= 1
    /\ \E b \in Bodies, ttl \in TTLs :
         answer' = [answer EXCEPT ![t] = [raw |-> UpTo(request(t), 2) \o b, ttl |-> ttl]]
    /\ Return(t)
    /\ Goto(t, "put_acquire")
    /\ UNCHANGED << startVars, cacheVars, now, data, record, wfile, err, nreq, sock, heads, nsent >>

\* lines 278-283, 294 in the outermost call, then handle line 268: the
\* server asked (which echoes the ID of the query) replies with an answer
\* section, and __get_answer__ returns to handle
ResolveAnswer(t) ==
    /\ pc[t] = "resolve"
    /\ Len(stack[t]) = 1
    /\ \E b \in Bodies, ttl \in TTLs :
         answer' = [answer EXCEPT ![t] = [raw |-> UpTo(request(t), 2) \o b, ttl |-> ttl]]
    /\ Return(t)
    /\ Goto(t, "put_acquire")
    /\ UNCHANGED << startVars, cacheVars, now, data, record, wfile, err, nreq, sock, heads, nsent >>

\* lines 278-283, 294 in a nested call, then lines 290-293 of its caller:
\* the reply has an answer section, and the address of its first record is
\* the caller's next target
ResolveNestedAnswer(t) ==
    /\ pc[t] = "resolve"
    /\ Len(stack[t]) > 1
    /\ \E a \in NsAddresses : target' = [target EXCEPT ![t] = a]
    /\ stack' = [stack EXCEPT ![t] = SubSeq(@, 1, Len(@) - 1)]
    /\ UNCHANGED << startVars, cacheVars, now, pc, localVars, nreq, reply, sock, heads, nsent >>

\* lines 278-289: the reply has no answer section and its additional section
\* holds more than one record: the target is taken from it and the loop
\* goes on
ResolveGlue(t) ==
    /\ pc[t] = "resolve"
    /\ \E r \in Referrals :
         /\ Len(r.additional) > 1
         /\ reply' = [reply EXCEPT ![t] = r]
         /\ target' = [target EXCEPT ![t] = FirstA(r.additional, @)]
    /\ UNCHANGED << startVars, cacheVars, now, pc, localVars, nreq, stack, sock, heads, nsent >>

\* lines 278-285, 290-293: the reply has no answer section and its
\* additional section is absent or holds one record: __get_answer__ is
\* called with a generated query for the first name server, from the root
ResolveAuthority(t) ==
    /\ pc[t] = "resolve"
    /\ Len(stack[t]) <= MaxNest
    /\ \E r \in Referrals, id \in RandomIds :
         /\ ~(Len(r.additional) > 1)
         /\ reply' = [reply EXCEPT ![t] = r]
         /\ stack' = [stack EXCEPT ![t] =
                         Append(@, generate_request(id, r.authority[1].data))]
    /\ target' = [target EXCEPT ![t] = Root]
    /\ UNCHANGED << startVars, cacheVars, now, pc, localVars, nreq, sock, heads, nsent >>

\* handle lines 269-271: recvfrom times out in some call; the socket is
\* closed and handle returns
ResolveTimeout(t) ==
    /\ pc[t] = "resolve"
    /\ sock' = [sock EXCEPT ![t] = "closed"]
    /\ Return(t)
    /\ Goto(t, "done")
    /\ UNCHANGED << startVars, cacheVars, now, localVars, nreq, heads, nsent >>

\* handle line 268: __get_answer__ raises something else than socket.timeout
\* (an upstream reply parse_response cannot decode, lines 137-153)
ResolveError(t) ==
    /\ pc[t] = "resolve"
    /\ Return(t)
    /\ Raise(t, "Exception", "__get_answer__")
    /\ UNCHANGED << startVars, cacheVars, now, data, record, answer, wfile, nreq, sock, heads, nsent >>

\* Cash.put lines 45-47: self.lock.acquire()
PutAcquire(t) ==
    /\ pc[t] = "put_acquire"
    /\ ~locked
    /\ locked' = TRUE
    /\ Goto(t, "put_maxsize")
    /\ UNCHANGED << startVars, heap, records, order, queue, now, localVars, nreq, resVars, sock, heads, nsent >>

\* handle lines 273-274 after put has returned: the raw answer is written
\* and the socket is closed
WriteAnswer(t) ==
    /\ wfile' = [wfile EXCEPT ![t] = answer[t].raw]
    /\ sock' = [sock EXCEPT ![t] = "closed"]

\* Cash.put lines 48-49: with maxsize 0 put returns with the lock held
PutMaxsize(t) ==
    /\ pc[t] = "put_maxsize"
    /\ IF maxsize = 0
       THEN WriteAnswer(t) /\ Goto(t, "done")
       ELSE Goto(t, "put_full") /\ UNCHANGED << wfile, sock >>
    /\ UNCHANGED << startVars, cacheVars, now, data, record, answer, err, nreq, resVars, heads, nsent >>

\* PutSecondChance as it would be if the bit of the head were left set
PutSecondChanceKeepsBit(t) ==
    /\ pc[t] = "put_full"
    /\ Full
    /\ heads[t] < MaxHeads
    /\ LET h == Head(queue)
       IN  /\ heap[h].r /\ heap[h].let > now
           /\ queue' = Append(Tail(queue), h)
    /\ heads' = [heads EXCEPT ![t] = @ + 1]
    /\ UNCHANGED << startVars, heap, records, order, locked, now, pc, localVars, nreq, resVars, sock, nsent >>

\* Cash.put lines 50-54: the queue is full and its head has its bit set and
\* is not expired: the bit is cleared and the record goes to the tail
PutSecondChance(t) ==
    /\ pc[t] = "put_full"
    /\ Full
    /\ heads[t] < MaxHeads
    /\ LET h == Head(queue)
       IN  /\ heap[h].r /\ heap[h].let > now
           /\ heap' = [heap EXCEPT ![h].r = FALSE]
           /\ queue' = Append(Tail(queue), h)
    /\ heads' = [heads EXCEPT ![t] = @ + 1]
    /\ UNCHANGED << startVars, records, order, locked, now, pc, localVars, nreq, resVars, sock, nsent >>

\* Cash.put lines 50-52, 55-56: the queue is full and its head has lost its
\* bit or is expired: self.records.pop(record.request)
PutDiscard(t) ==
    /\ pc[t] = "put_full"
    /\ Full
    /\ LET h == Head(queue)
       IN  /\ ~(heap[h].r /\ heap[h].let > now)
           /\ queue' = Tail(queue)
           /\ heap' = Free(heap, h)
           /\ IF heap[h].request \in DOMAIN records
              THEN /\ records' = Pop(records, heap[h].request)
                   /\ order' = Drop(order, heap[h].request)
                   /\ UNCHANGED << pc, err >>
              ELSE /\ Raise(t, "KeyError", "put")
                   /\ UNCHANGED << records, order >>
    /\ heads' = [heads EXCEPT ![t] = @ + 1]
    /\ UNCHANGED << startVars, locked, now, data, record, answer, wfile, nreq, resVars, sock, nsent >>

\* Cash.put lines 57-58: the new record is constructed and put into the map
PutRecord(t) ==
    /\ pc[t] = "put_full"
    /\ ~Full
    /\ LET id == NewRef
       IN  /\ heap' = Alloc(heap, id,
                  CashRecord(key(t), Decode(From(answer[t].raw, 2)), answer[t].ttl + now, TRUE))
           /\ records' = Set(records, key(t), id)
           /\ order' = Keep(order, key(t))
           /\ record' = [record EXCEPT ![t] = id]
    /\ heads' = [heads EXCEPT ![t] = 0]
    /\ Goto(t, "put_queue")
    /\ UNCHANGED << startVars, queue, locked, now, data, answer, wfile, err, nreq, resVars, sock, nsent >>

\* Cash.put line 59: self.queue.put(record), which blocks while the queue is
\* full
PutQueue(t) ==
    /\ pc[t] = "put_queue"
    /\ ~Full
    /\ queue' = Append(queue, record[t])
    /\ Goto(t, "put_release")
    /\ UNCHANGED << startVars, heap, records, order, locked, now, localVars, nreq, resVars, sock, heads, nsent >>

\* Cash.put line 60 and handle lines 273-274
PutRelease(t) ==
    /\ pc[t] = "put_release"
    /\ locked' = FALSE
    /\ WriteAnswer(t)
    /\ Goto(t, "done")
    /\ UNCHANGED << startVars, heap, records, order, queue, now, data, record, answer, err, nreq, resVars, heads, nsent >>

\* DatagramRequestHandler.finish, which runs after handle() whether it
\* returned or raised: socket.sendto(wfile.getvalue(), client_address)
\* sends the content of wfile, empty or not, as one datagram; then the
\* thread ends and the handler with its locals is gone
Finish(t) ==
    /\ pc[t] \in {"done", "raised"}
    /\ nsent' = nsent + 1
    /\ pc' = [pc EXCEPT ![t] = "idle"]
    /\ data' = [data EXCEPT ![t] = << >>]
    /\ record' = [record EXCEPT ![t] = 0]
    /\ answer' = [answer EXCEPT ![t] = NoAnswer]
    /\ wfile' = [wfile EXCEPT ![t] = << >>]
    /\ err' = [err EXCEPT ![t] = None]
    /\ sock' = [sock EXCEPT ![t] = "none"]
    /\ heads' = [heads EXCEPT ![t] = 0]
    /\ UNCHANGED << startVars, cacheVars, now, nreq, resVars >>

Handle(t) ==
    \/ Dispatch(t)
    \/ ContainsIn(t) \/ ContainsLet(t) \/ ContainsPop(t)
    \/ GetAcquire(t) \/ GetCheck(t) \/ GetRecord(t) \/ GetRelease(t)
    \/ ResolveAnswer(t) \/ ResolveNestedAnswer(t) \/ ResolveGlue(t) \/ ResolveAuthority(t)
    \/ ResolveTimeout(t) \/ ResolveError(t)
    \/ PutAcquire(t) \/ PutMaxsize(t) \/ PutSecondChance(t) \/ PutDiscard(t)
    \/ PutRecord(t) \/ PutQueue(t) \/ PutRelease(t)
    \/ Finish(t)

Next ==
    \/ RestoreNoFile
    \/ RestoreRecord
    \/ RestoreDone
    \/ Exit
    \/ Tick
    \/ \E t \in Threads : Handle(t)

Spec == Init /\ [][Next]_vars

\* one round of the loop of __get_answer__ (lines 278-280): the query is
\* sent and recvfrom returns a reply or raises
Exchange(t) ==
    \/ ResolveAnswer(t) \/ ResolveNestedAnswer(t) \/ ResolveGlue(t) \/ ResolveAuthority(t)
    \/ ResolveTimeout(t) \/ ResolveError(t)

\* a handler thread that is in __get_answer__ keeps being scheduled, and
\* recvfrom returns within the timeout of the socket or raises
FairSpec == Spec /\ \A t \in Threads : WF_vars(Exchange(t))


\* ------------------------------------------------------------- views
\* the references the queue holds
InQueue == { queue[i] : i \in 1..Len(queue) }
\* the queue positions that hold a record for key k
QueueSlots(k) == { i \in 1..Len(queue) : heap[queue[i]].request = k }

\* a thread is between the first and the last line of __contains__
InContains(t) == pc[t] \in {"contains_let", "contains_pop"}
\* a thread has called get or put and the call has not returned
InGet(t) == pc[t] \in {"get_acquire", "get_check", "get_record", "get_release"}
InPut(t) == pc[t] \in {"put_acquire", "put_maxsize", "put_full", "put_queue", "put_release"}
\* a thread is between lock.acquire() and lock.release() of get or put
InCritical(t) == (InGet(t) /\ pc[t] # "get_acquire") \/ (InPut(t) /\ pc[t] # "put_acquire")
\* the server serves and no call on the cache is under way
Quiescent == phase = "serving" /\ \A t \in Threads : ~InContains(t) /\ ~InGet(t) /\ ~InPut(t)

\* what __contains__ returns for key k when it runs alone (lines 82-87)
Contains(k) == k \in DOMAIN records /\ ~(heap[records[k]].let < now)
\* what get returns for key k when it runs alone (lines 37-42)
Get(k) == IF k = << >> \/ k \notin DOMAIN records THEN << -1 >>
          ELSE Encode(heap[records[k]].response)

\* ------------------------------------------------------------- claims

\* C1: between calls of put, get, contains and restore the map and the queue
\* agree: every key of the map has exactly one element in the queue, the one
\* the map holds, and every element of the queue has its key in the map,
\* mapped to that element.
C1_MapQueueAgree ==
    Quiescent =>
        /\ \A k \in DOMAIN records :
             /\ Cardinality(QueueSlots(k)) = 1
             /\ records[k] \in InQueue
        /\ \A i \in 1..Len(queue) :
             /\ heap[queue[i]].request \in DOMAIN records
             /\ records[heap[queue[i]].request] = queue[i]

\* C2: whenever no thread is executing get or put, the lock is free (get and
\* put release it on every return path).
C2_LockReleased ==
    (\A t \in Threads : ~InGet(t) /\ ~InPut(t)) => ~locked

\* C3: a handler that has seen `key in cache` true never gets an absent
\* result from get(key): get does not return None (handle line 265 then
\* raises TypeError) and does not fail on the key.
C3_HitIsPresent ==
    \A t \in Threads :
        ~(pc[t] = "raised" /\ err[t] \in { [exc |-> "TypeError", in |-> "handle"],
                                           [exc |-> "KeyError", in |-> "get"] })

\* C4: with maxsize >= 1, put does not raise, and the step that inserts
\* leaves the key mapped to a record with put's response (as text), the
\* deadline now + ttl and the bit set.
C4_PutInserts ==
    [][maxsize >= 1 =>
        \A t \in Threads :
            /\ InPut(t) => pc'[t] # "raised"
            /\ (pc[t] = "put_full" /\ pc'[t] = "put_queue") =>
                 /\ key(t) \in DOMAIN records'
                 /\ heap'[records'[key(t)]] =
                      CashRecord(key(t), Decode(From(answer[t].raw, 2)),
                                 now + answer[t].ttl, TRUE)]_vars

\* C5: get never returns the response of a record whose deadline has passed
\* (let < time.time(), as __contains__ tests it).
C5_GetNotExpired ==
    [][\A t \in Threads :
         (pc[t] = "get_release" /\ pc'[t] = "done") => ~(heap[record[t]].let < now)]_vars

\* C6: with maxsize 0 caching is disabled: put returns with the map and the
\* queue as they were, and once the server serves, contains is false for
\* every key.
C6_ZeroDisables ==
    [][maxsize = 0 =>
        /\ \A t \in Threads :
             (pc[t] = "put_maxsize" /\ pc'[t] # "put_maxsize") =>
                 (records' = records /\ queue' = queue)
        /\ phase' = "serving" => \A k \in Keys : ~Contains(k)']_vars

\* C7: once restore has run, the number of entries, in the map and in the
\* queue, is at most maxsize.
C7_WithinCapacity ==
    phase = "serving" =>
        /\ Cardinality(DOMAIN records) <= maxsize
        /\ Len(queue) <= maxsize

\* C8: get, put and contains exclude each other: no thread is inside
\* contains while another thread is inside the critical section of get or
\* put, or inside contains.
C8_MutualExclusion ==
    \A a, b \in Threads :
        (a # b /\ InContains(a)) => ~InCritical(b) /\ ~InContains(b)

\* C9: the step of put that discards at full capacity removes exactly one
\* key, the key of the queue element it discards (the first in FIFO order
\* with a cleared bit or expired, the earlier ones having been moved to the
\* tail), and the map entry removed is that element, not another record.
C9_EvictsQueueHead ==
    [][\A t \in Threads :
         LET h == Head(queue)
             k == heap[h].request
         IN  (/\ pc[t] = "put_full"
              /\ Full
              /\ ~(heap[h].r /\ heap[h].let > now)
              /\ queue' = Tail(queue)) =>
                 /\ k \in DOMAIN records
                 /\ records[k] = h
                 /\ records' = Pop(records, k)
                 /\ pc'[t] = "put_full"]_vars

\* the record put last among the records in use with the same key
Latest(i) == \A j \in DOMAIN heap : heap[j].request = heap[i].request => j <= i

\* C10: when several puts of a key have completed, the later put wins:
\* while the record put last is in the queue (not chosen by the eviction)
\* and not expired, get(key) returns its response.
C10_LaterPutWins ==
    (phase = "serving" /\ \A t \in Threads : ~InCritical(t)) =>
        \A i \in InQueue :
            (Latest(i) /\ ~(heap[i].let < now)) =>
                Get(heap[i].request) = Encode(heap[i].response)

\* C11: every reply a handler has written for its client, from the cache or
\* from a resolution (the upstream servers echo the ID of the query they
\* receive), starts with the two ID bytes of the client's query.
C11_ReplyCarriesId ==
    \A t \in Threads :
        (pc[t] = "done" /\ wfile[t] # << >>) => UpTo(wfile[t], 2) = UpTo(data[t], 2)

\* two handlers have been served the same key from the cache (a hit returns
\* with the socket open) under different IDs, and each reply carries the ID
\* of its own query: the entry was stored under the ID of another query for
\* at least one of them
C11_Witness ==
    \E a, b \in Threads :
        /\ pc[a] = "done" /\ pc[b] = "done"
        /\ sock[a] = "open" /\ sock[b] = "open"
        /\ key(a) = key(b)
        /\ UpTo(data[a], 2) = IdA /\ UpTo(data[b], 2) = IdB
        /\ UpTo(wfile[a], 2) = IdA /\ UpTo(wfile[b], 2) = IdB

\* the question suffix (bytes 12..) of the query an entry was stored for:
\* the key holds the text of bytes 2.., ten header bytes before the question
QuestionOf(k) == From(k, 10)

\* C12: the cache key is the question suffix of the query (bytes 12..):
\* a query does not miss while the map holds an unexpired entry stored for a
\* query with the same bytes from offset 12 on, whatever the header bytes
\* of the two queries are.
C12_KeyIsQuestion ==
    [][\A t \in Threads :
         (pc[t] = "contains" /\ pc'[t] = "resolve") =>
             ~\E k \in DOMAIN records :
                 /\ QuestionOf(k) = Decode(From(data[t], 12))
                 /\ ~(heap[records[k]].let < now)]_vars

\* C13: every resolution ends, with an answer or with a failure, when the
\* upstream servers always reply: a handler that is in __get_answer__
\* eventually has left it.
C13_ResolutionEnds ==
    \A t \in Threads : (pc[t] = "resolve") ~> (pc[t] # "resolve")

\* a step of thread t in which __get_answer__ has processed a reply without
\* an answer section (reply'[t]) and goes on
Referred(t) ==
    /\ pc[t] = "resolve" /\ pc'[t] = "resolve"
    /\ Len(stack'[t]) >= Len(stack[t])
    /\ << reply'[t], target'[t], stack'[t] >> # << reply[t], target[t], stack[t] >>

\* C14: on a reply with no answer records whose additional section holds at
\* least one A record, the next target is the address of the first such
\* record, and no name server name is resolved (that happens only if the
\* section holds no A record).
C14_GlueFirst ==
    [][\A t \in Threads :
         LET add == reply'[t].additional
         IN  (Referred(t) /\ \E i \in 1..Len(add) : add[i].type = 1) =>
                 /\ stack'[t] = stack[t]
                 /\ \E i \in 1..Len(add) :
                      /\ add[i].type = 1
                      /\ \A j \in 1..(i - 1) : add[j].type # 1
                      /\ target'[t] = add[i].data]_vars

\* handle() of thread t has ended on a failed resolution: it returned after
\* socket.timeout with nothing written, or __get_answer__ raised
Failed(t) ==
    \/ pc[t] = "done" /\ wfile[t] = << >>
    \/ pc[t] = "raised" /\ err[t].in = "__get_answer__"

\* C15: when a resolution fails (timeout, or a reply that cannot be
\* decoded) the step that ends it leaves the cache as it was, the handler
\* then ends without a datagram being sent to the client, and the server
\* goes on serving.
C15_FailureIsSilent ==
    [][\A t \in Threads :
         /\ (pc[t] = "resolve" /\ pc'[t] \in {"done", "raised"}) =>
                (heap' = heap /\ records' = records /\ queue' = queue /\ locked' = locked)
         /\ (Failed(t) /\ pc'[t] = "idle") =>
                (nsent' = nsent /\ phase' = "serving")]_vars

\* C16: a handler whose handle() has ended, by return or by exception, has
\* closed its upstream socket.
C16_SocketClosed ==
    \A t \in Threads : pc[t] \in {"done", "raised"} => sock[t] = "closed"

\* C17: startup restore terminates: it never waits in Queue.put for a slot
\* that nothing will free.
C17_RestoreTerminates == phase # "hung"

\* C18: persistence round-trip: a record that restore reads from the file
\* save has written, with a deadline that has not passed, makes contains
\* true for its key and get return exactly the bytes B the record was put
\* with (put stores the text Decode(B)); a record whose deadline has passed
\* leaves contains false.
C18_RoundTrip ==
    [][(/\ phase = "restore"
        /\ snapshot.file
        /\ cursor <= Len(snapshot.dict)
        /\ << cursor', phase' >> # << cursor, phase >>) =>
           \A K \in { snapshot.dict[cursor].request } :
               IF snapshot.dict[cursor].let < now
               THEN ~Contains(K)'
               ELSE /\ Contains(K)'
                    /\ \A B \in Bodies :
                         snapshot.dict[cursor].response = Decode(B) => Get(K)' = B]_vars

\* C19: with capacity N >= 1 the eviction loop of put takes at most N + 1
\* queue heads, and once it has taken one, either the queue is still full
\* (only bits have been cleared) or exactly one element has left it and the
\* loop is over.
C19_EvictionBounded ==
    \A t \in Threads :
        (maxsize >= 1 /\ pc[t] = "put_full") =>
            /\ heads[t] <= maxsize + 1
            /\ heads[t] > 0 => (Len(queue) = maxsize \/ Len(queue) = maxsize - 1)

\* a put at full capacity has cleared the bit of every queue element and
\* discarded the first one on the second round
C19_Witness ==
    \E t \in Threads :
        /\ maxsize = MaxCap
        /\ pc[t] = "put_full"
        /\ heads[t] = maxsize + 1
        /\ Len(queue) = maxsize - 1

\* C20: no handler waits forever for the cache lock: while a handler waits
\* in lock.acquire() of get or put, the lock is held by a handler that is
\* inside get or put and will release it.
C20_NoEndlessWait ==
    \A t \in Threads :
        (pc[t] \in {"get_acquire", "put_acquire"} /\ locked) =>
            \E u \in Threads : InCritical(u)

====
